---------------------------- MODULE Spec2Model ----------------------------
(***************************************************************************)
(* A model of asciinema-scenario (src/src/main.rs): the scenario file is   *)
(* read line by line, every line is sent through the branch chain of main, *)
(* the time cursor advances and events are printed, and the preview lines  *)
(* are rendered to an svg document at the end.                             *)
(*                                                                         *)
(* Text is a sequence of one-character strings.  Times are integers in     *)
(* thousandths of a second; the steps and timeouts of the model are        *)
(* multiples of 1/8 s or of 1/10 s that never sit next to a rounding tie   *)
(* in binary floating point, so the integer sums are the f64 sums as far   *)
(* as the two printed decimals can tell.                                   *)
(***************************************************************************)
EXTENDS Integers, Sequences, FiniteSets, TLC

VARIABLES
    pc,               \* position in main: "start", "header", "loop", "svg", "done", "exit1", "error"
    scenario_exists,  \* Path::new(&cli.scenario_file).exists()
    svg_requested,    \* cli.svg_preview_file.is_some()
    svg_file,         \* what is at the svg preview path: [state, rows]
    file,             \* the lines of the scenario file read so far
    eof,              \* the scenario file is known to end after `file`
    header,           \* ScenarioHeader: [step, width, height]
    time,             \* the time cursor `time` of main, in thousandths
    index,            \* the number of lines the line loop has taken
    stdout,           \* what was printed, in order
    preview_lines,    \* Vec<Vec<String>>
    emitted,          \* history: the entries given to print_entry, with their line
    roles,            \* history: the branch of the chain each taken line went to
    cause,            \* why the run ended in "error" ("" while it has not)
    earlier           \* history: how an earlier run on the same file ended

vars == <<pc, scenario_exists, svg_requested, svg_file, file, eof, header,
          time, index, stdout, preview_lines, emitted, roles, cause, earlier>>

(***************************************************************************)
(* Bounds of the model.                                                    *)
(***************************************************************************)
MaxLines == 3

\* the longest file a second run is made on
MaxRerunLines == 2

(***************************************************************************)
(* Text.                                                                   *)
(***************************************************************************)
Chars(s) == [i \in 1..Len(s) |-> SubSeq(s, i, i)]

ESC == "ESC"

Whitespace == {" ", "\t", "\r", "\n"}

starts_with(s, p) == Len(s) >= Len(p) /\ SubSeq(s, 1, Len(p)) = p

strip_prefix(s, p) == SubSeq(s, Len(p) + 1, Len(s))

\* the only element of a one-element set: Only({f(v) : v \in {e}}) is f(e)
\* with e worked out once
Only(S) == CHOOSE x \in S : TRUE

\* str::trim: s without its leading and trailing whitespace
trim(s) ==
    LET keep == {i \in 1..Len(s) : s[i] \notin Whitespace}
    IN  IF keep = {} THEN <<>>
        ELSE SubSeq(s, CHOOSE i \in keep : \A j \in keep : i <= j,
                       CHOOSE i \in keep : \A j \in keep : j <= i)

RECURSIVE Concat(_)
Concat(ss) == IF ss = <<>> THEN <<>> ELSE Head(ss) \o Concat(Tail(ss))

\* the position of the first c in s, 0 when there is none
find(s, c) ==
    IF \E i \in 1..Len(s) : s[i] = c
    THEN CHOOSE i \in 1..Len(s) : s[i] = c /\ \A j \in 1..(i - 1) : s[j] # c
    ELSE 0

\* s.split(c): the pieces of s between the occurrences of c
split(s, c) ==
    LET n      == Cardinality({i \in 1..Len(s) : s[i] = c})
        cut(k) == IF k = 0 THEN 0
                  ELSE IF k = n + 1 THEN Len(s) + 1
                  ELSE CHOOSE i \in 1..Len(s) :
                          s[i] = c /\ Cardinality({j \in 1..i : s[j] = c}) = k
    IN  [k \in 1..(n + 1) |-> SubSeq(s, cut(k - 1) + 1, cut(k) - 1)]

\* the literals of the line loop
HeaderMark == Chars("#! ")

TimeoutMark == Chars("#timeout:")

DollarPrompt == Chars("$ ")

NixPrompt == Chars("(nix-shell) ")

ClearMark == Chars("--")

EmptyObject == Chars("{}")

(***************************************************************************)
(* Numbers.  A parse result is [ok, val, int]: val in thousandths, int     *)
(* telling that the literal had no fraction.  The literals of the model    *)
(* have at most three fraction digits and no exponent.                     *)
(***************************************************************************)
Digits == <<"0", "1", "2", "3", "4", "5", "6", "7", "8", "9">>

IsDigit(c) == \E i \in 1..10 : Digits[i] = c

DigitVal(c) == (CHOOSE i \in 1..10 : Digits[i] = c) - 1

AllDigits(s) == \A i \in 1..Len(s) : IsDigit(s[i])

RECURSIVE IntAcc(_, _)
IntAcc(ds, acc) ==
    IF ds = <<>> THEN acc ELSE IntAcc(Tail(ds), 10 * acc + DigitVal(Head(ds)))

IntOf(ds) == IntAcc(ds, 0)

FracOf(ds) == IntOf(SubSeq(ds \o <<"0", "0", "0">>, 1, 3))

ParseErr == [ok |-> FALSE, val |-> 0, int |-> FALSE]

\* the value of sign, integer part ip and fraction part fp
decimal(neg, ip, fp, int) ==
    [ok  |-> TRUE,
     val |-> IF neg THEN 0 - (1000 * IntOf(ip) + FracOf(fp))
                    ELSE 1000 * IntOf(ip) + FracOf(fp),
     int |-> int]

\* <f64 as FromStr>::from_str on the decimal literal t: [+-] digits [. digits],
\* with a digit on at least one side of the point
f64_literal(t) ==
    LET signed == t # <<>> /\ Head(t) \in {"+", "-"}
        body   == IF signed THEN Tail(t) ELSE t
        dot    == find(body, ".")
        ip     == IF dot = 0 THEN body ELSE SubSeq(body, 1, dot - 1)
        fp     == IF dot = 0 THEN <<>> ELSE SubSeq(body, dot + 1, Len(body))
    IN  IF AllDigits(ip) /\ AllDigits(fp) /\ Len(ip) + Len(fp) > 0
        THEN decimal(t # <<>> /\ Head(t) = "-", ip, fp, dot = 0)
        ELSE ParseErr

parse_f64(s) == Only({f64_literal(t) : t \in {s}})

\* a JSON number t: [-] digits [. digits], no leading zero, digits on both
\* sides of a point
json_literal(t) ==
    LET neg  == t # <<>> /\ Head(t) = "-"
        body == IF neg THEN Tail(t) ELSE t
        dot  == find(body, ".")
        ip   == IF dot = 0 THEN body ELSE SubSeq(body, 1, dot - 1)
        fp   == IF dot = 0 THEN <<>> ELSE SubSeq(body, dot + 1, Len(body))
    IN  IF /\ AllDigits(ip) /\ AllDigits(fp) /\ Len(ip) > 0
           /\ (dot # 0 => Len(fp) > 0)
           /\ (Len(ip) > 1 => Head(ip) # "0")
        THEN decimal(neg, ip, fp, dot = 0)
        ELSE ParseErr

json_number(s) == Only({json_literal(t) : t \in {s}})

(***************************************************************************)
(* The scenario header.                                                    *)
(***************************************************************************)
default_step == 100

default_width == 77

default_height == 20

\* one `"key": number` member of the header object: [ok, key, num]
json_member(f) ==
    LET colon == find(f, ":")
        k     == trim(SubSeq(f, 1, colon - 1))
    IN  IF colon = 0 \/ Len(k) < 2 \/ k[1] # "\"" \/ k[Len(k)] # "\""
        THEN [ok |-> FALSE, key |-> <<>>, num |-> ParseErr]
        ELSE Only({[ok |-> n.ok, key |-> SubSeq(k, 2, Len(k) - 1), num |-> n] :
                   n \in {json_number(trim(SubSeq(f, colon + 1, Len(f))))}})

\* the members of the JSON object t, <<[ok |-> FALSE, ...]>> when t is no object
json_object(t) ==
    IF Len(t) >= 2 /\ t[1] = "{" /\ t[Len(t)] = "}"
    THEN Only({ IF inner = <<>> THEN <<>>
                ELSE Only({[i \in 1..Len(fs) |-> json_member(fs[i])] :
                           fs \in {split(inner, ",")}}) :
                inner \in {trim(SubSeq(t, 2, Len(t) - 1))} })
    ELSE <<[ok |-> FALSE, key |-> <<>>, num |-> ParseErr]>>

\* the ScenarioHeader of the members: missing fields take their defaults,
\* unknown fields are ignored, a field given twice and a width or height that
\* is no unsigned integer are errors (the widths of the model are far below
\* 2^32)
header_of(members) ==
    LET at(name) == {i \in 1..Len(members) : members[i].key = Chars(name)}
        num(name) == members[CHOOSE i \in at(name) : TRUE].num
        u32(name) == at(name) = {} \/ (num(name).int /\ num(name).val >= 0)
        get(name, dflt) == IF at(name) = {} THEN dflt ELSE num(name).val
    IN  IF /\ \A i \in 1..Len(members) : members[i].ok
           /\ \A name \in {"step", "width", "height"} : Cardinality(at(name)) <= 1
           /\ u32("width") /\ u32("height")
        THEN [ok     |-> TRUE,
              step   |-> get("step", default_step),
              width  |-> get("width", 1000 * default_width) \div 1000,
              height |-> get("height", 1000 * default_height) \div 1000]
        ELSE [ok |-> FALSE, step |-> 0, width |-> 0, height |-> 0]

\* serde_json::from_str::<ScenarioHeader> on a flat object whose values are
\* numbers
parse_header(s) ==
    Only({header_of(members) : members \in {json_object(t) : t \in {trim(s)}}})

\* lines 270-274: the header of the first line, or of "{}"
scenario_header(first_line) ==
    IF starts_with(first_line, HeaderMark)
    THEN parse_header(strip_prefix(first_line, HeaderMark))
    ELSE parse_header(EmptyObject)

Header(h) == [kind |-> "header", version |-> 2, width |-> h.width, height |-> h.height]

(***************************************************************************)
(* Printing and typing.  An Entry is [time, data]; what print_entry puts   *)
(* on stdout is [kind, time, data] with the time at two decimals.          *)
(***************************************************************************)
\* format!("{:.2}", t) and back: the nearest hundredth, a tie going to the
\* even digit
round2(t) ==
    LET mag == IF t < 0 THEN 0 - t ELSE t
        q   == mag \div 10
        r   == mag % 10
        up  == r > 5 \/ (r = 5 /\ q % 2 = 1)
        res == 10 * (IF up THEN q + 1 ELSE q)
    IN  IF t < 0 THEN 0 - res ELSE res

print_entry(entry) == [kind |-> "o", time |-> round2(entry.time), data |-> entry.data]

Entry(t, d) == [time |-> t, data |-> d]

ClearHome == <<"\r", ESC, "[", "2", "J", "\r", ESC, "[", "H">>

BrightOn == <<ESC, "[", "1", "m">>

BrightOff == <<ESC, "[", "0", "m">>

CRLF == <<"\r", "\n">>

\* clear_terminal with a pause of two steps after the clear
clear_terminal_ShortPause(t, step) ==
    [time |-> t + 18 * step + 2 * step, out |-> <<Entry(t + 18 * step, ClearHome)>>]

\* [time, out]: the cursor after the call and the entries it printed
clear_terminal(t, step) ==
    [time |-> t + 18 * step + 3 * step, out |-> <<Entry(t + 18 * step, ClearHome)>>]

\* typing_loop printing the bright-on sequence in place of a `#`
RECURSIVE typing_loop_SkipsHash(_, _, _, _, _)
typing_loop_SkipsHash(cs, t, step, out, bright_applied) ==
    IF cs = <<>> THEN [time |-> t, out |-> out, bright_applied |-> bright_applied]
    ELSE IF Head(cs) = "#"
         THEN typing_loop_SkipsHash(Tail(cs), t + step, step,
                                    out \o <<Entry(t + step, BrightOn)>>, TRUE)
         ELSE typing_loop_SkipsHash(Tail(cs), t + step, step,
                                    out \o <<Entry(t + step, <<Head(cs)>>)>>,
                                    bright_applied)

\* typing_loop going on from the time as printed
RECURSIVE typing_loop_RoundedCursor(_, _, _, _, _)
typing_loop_RoundedCursor(cs, t, step, out, bright_applied) ==
    IF cs = <<>> THEN [time |-> t, out |-> out, bright_applied |-> bright_applied]
    ELSE IF Head(cs) = "#"
         THEN typing_loop_RoundedCursor(Tail(cs), round2(t + step), step,
                  out \o <<Entry(round2(t + step), BrightOn),
                           Entry(round2(t + step), <<Head(cs)>>)>>, TRUE)
         ELSE typing_loop_RoundedCursor(Tail(cs), round2(t + step), step,
                  out \o <<Entry(round2(t + step), <<Head(cs)>>)>>, bright_applied)

\* the for loop of echo_typing over the characters still to type
RECURSIVE typing_loop(_, _, _, _, _)
typing_loop(cs, t, step, out, bright_applied) ==
    IF cs = <<>> THEN [time |-> t, out |-> out, bright_applied |-> bright_applied]
    ELSE IF Head(cs) = "#"
         THEN typing_loop(Tail(cs), t + step, step,
                          out \o <<Entry(t + step, BrightOn), Entry(t + step, <<Head(cs)>>)>>,
                          TRUE)
         ELSE typing_loop(Tail(cs), t + step, step,
                          out \o <<Entry(t + step, <<Head(cs)>>)>>, bright_applied)

\* typing_end with the bright reset printed after the pause
typing_end_LateOff(l, step, line_raw) ==
    [time |-> l.time + 3 * step,
     out  |-> l.out
              \o (IF l.bright_applied THEN <<Entry(l.time + 3 * step, BrightOff)>> ELSE <<>>)
              \o <<Entry(l.time + 3 * step, CRLF)>>,
     ret  |-> line_raw]

\* the rest of echo_typing, l the state after its for loop: [time, out, ret]
typing_end(l, step, line_raw) ==
    [time |-> l.time + 3 * step,
     out  |-> l.out
              \o (IF l.bright_applied THEN <<Entry(l.time, BrightOff)>> ELSE <<>>)
              \o <<Entry(l.time + 3 * step, CRLF)>>,
     ret  |-> line_raw]

\* [time, out, ret]
echo_typing(t, step, line_raw) ==
    Only({typing_end(l, step, line_raw) :
          l \in {typing_loop(line_raw, t, step, <<>>, FALSE)}})

prompt_line(prompt) ==
    IF prompt # <<>>
    THEN <<ESC, "[", "3", "2", "m">> \o prompt \o <<ESC, "[", "0", "m", "$", " ">>
    ELSE <<"$", " ">>

\* echo_console_line with a pause of two steps after the prompt
echo_console_line_ShortPause(t, step, prompt, line) ==
    Only({[time |-> ty.time,
           out  |-> <<Entry(t + step, prompt_line(prompt))>> \o ty.out,
           ret  |-> <<prompt, ty.ret>>] :
          ty \in {echo_typing(t + step + 2 * step, step, line)}})

\* [time, out, ret]
echo_console_line(t, step, prompt, line) ==
    Only({[time |-> ty.time,
           out  |-> <<Entry(t + step, prompt_line(prompt))>> \o ty.out,
           ret  |-> <<prompt, ty.ret>>] :
          ty \in {echo_typing(t + step + 3 * step, step, line)}})

(***************************************************************************)
(* The preview document: one row per preview line, a row a sequence of     *)
(* nodes [class, text], class "" for a bare Text node.                     *)
(***************************************************************************)
encode_char(c) ==
    CASE c = "&"  -> Chars("&amp;")
      [] c = "<"  -> Chars("&lt;")
      [] c = ">"  -> Chars("&gt;")
      [] c = "\"" -> Chars("&quot;")
      [] c = "'"  -> Chars("&#x27;")
      [] c = "/"  -> Chars("&#x2F;")
      [] OTHER    -> <<c>>

encode_safe(s) == Concat([i \in 1..Len(s) |-> encode_char(s[i])])

Node(class, text) == [class |-> class, text |-> text]

\* lines 370-388: the nodes one item of a preview line adds to its row
item_nodes(item) ==
    IF item = <<>> THEN <<Node("", DollarPrompt)>>
    ELSE LET i == find(item, "#")
             parts == IF i = 0 THEN <<item>>
                      ELSE <<SubSeq(item, 1, i - 1), SubSeq(item, i + 1, Len(item))>>
         IN  (IF Len(parts) = 1
              THEN <<Node("", encode_safe(parts[1]))>>
              ELSE <<Node("", encode_safe(parts[1])),
                     Node("fg-15", encode_safe(Concat(Tail(parts))))>>)
             \o <<Node("fg-2", encode_safe(item))>>

preview_row(preview_line) ==
    Concat([i \in 1..Len(preview_line) |-> item_nodes(preview_line[i])])

preview_rows(pls) == [i \in 1..Len(pls) |-> preview_row(pls[i])]

(***************************************************************************)
(* The lines a scenario file of the model is made of.                      *)
(***************************************************************************)
LineSet ==
    { Chars("#! {\"step\":0.125,\"width\":80}"),
      Chars("#! {"),
      Chars("#timeout: 2"),
      Chars("#timeout: abc"),
      Chars("#timeout:-1.5"),
      Chars("$ ls"),
      Chars("$ #a#"),
      Chars("$ "),
      Chars("(nix-shell) $ l#"),
      Chars("--"),
      <<>>,
      <<" ", "\t">>,
      Chars("a<#b#"),
      Chars("$ls"),
      Chars(" --"),
      Chars("#timeout"),
      Chars("#timeout:") }

\* Branch with the `#` test ahead of the `#timeout:` test
Branch_CommentFirst(line, idx) ==
    IF idx = 0 /\ starts_with(line, HeaderMark) THEN "skip"
    ELSE IF starts_with(line, <<"#">>) THEN "comment"
    ELSE IF starts_with(line, TimeoutMark) THEN "timeout"
    ELSE IF starts_with(line, DollarPrompt) THEN "console"
    ELSE IF starts_with(line, NixPrompt \o DollarPrompt) THEN "nix"
    ELSE IF starts_with(line, ClearMark) THEN "clear"
    ELSE IF trim(line) = <<>> THEN "blank"
    ELSE "plain"

\* the branch chain of the line loop, lines 297-340
Branch(line, idx) ==
    IF idx = 0 /\ starts_with(line, HeaderMark) THEN "skip"
    ELSE IF starts_with(line, TimeoutMark) THEN "timeout"
    ELSE IF starts_with(line, <<"#">>) THEN "comment"
    ELSE IF starts_with(line, DollarPrompt) THEN "console"
    ELSE IF starts_with(line, NixPrompt \o DollarPrompt) THEN "nix"
    ELSE IF starts_with(line, ClearMark) THEN "clear"
    ELSE IF trim(line) = <<>> THEN "blank"
    ELSE "plain"

(***************************************************************************)
(* The run.                                                                *)
(***************************************************************************)
Absent == [state |-> "absent", rows |-> <<>>]

\* no earlier run
NoRun ==
    [pc |-> "none", cause |-> "", file |-> <<>>, eof |-> FALSE,
     header |-> [step |-> default_step, width |-> default_width, height |-> default_height],
     time |-> 0, index |-> 0, stdout |-> <<>>, preview_lines |-> <<>>,
     emitted |-> <<>>, roles |-> <<>>]

Init ==
    /\ pc = "start"
    /\ scenario_exists \in BOOLEAN
    /\ svg_requested \in BOOLEAN
    /\ svg_file \in {Absent} \cup
                    (IF svg_requested THEN {[state |-> "old", rows |-> <<>>]} ELSE {})
    /\ file = <<>>
    /\ eof = FALSE
    /\ header = [step |-> default_step, width |-> default_width, height |-> default_height]
    /\ time = 0
    /\ index = 0
    /\ stdout = <<>>
    /\ preview_lines = <<>>
    /\ emitted = <<>>
    /\ roles = <<>>
    /\ cause = ""
    /\ earlier = NoRun

\* lines 244-250
ScenarioMissing ==
    /\ pc = "start"
    /\ ~scenario_exists
    /\ stdout' = Append(stdout, [kind |-> "error", data |-> "scenario file does not exist"])
    /\ pc' = "exit1"
    /\ UNCHANGED <<earlier, scenario_exists, svg_requested, svg_file, file, eof, header, time,
                   index, preview_lines, emitted, roles, cause>>

\* SvgExists with the check dropped: the run goes on to the header
SvgExists_GoesOn ==
    /\ pc = "start"
    /\ scenario_exists
    /\ svg_requested /\ svg_file.state # "absent"
    /\ pc' = "header"
    /\ UNCHANGED <<earlier, scenario_exists, svg_requested, svg_file, file, eof, header, time,
                   index, stdout, preview_lines, emitted, roles, cause>>

\* lines 253-260
SvgExists ==
    /\ pc = "start"
    /\ scenario_exists
    /\ svg_requested /\ svg_file.state # "absent"
    /\ stdout' = Append(stdout, [kind |-> "error", data |-> "svg preview file already exist"])
    /\ pc' = "exit1"
    /\ UNCHANGED <<earlier, scenario_exists, svg_requested, svg_file, file, eof, header, time,
                   index, preview_lines, emitted, roles, cause>>

PreflightOk ==
    /\ pc = "start"
    /\ scenario_exists
    /\ ~(svg_requested /\ svg_file.state # "absent")
    /\ pc' = "header"
    /\ UNCHANGED <<earlier, scenario_exists, svg_requested, svg_file, file, eof, header, time,
                   index, stdout, preview_lines, emitted, roles, cause>>

\* the first line read_line returns: nothing for an empty file
FirstLines == {<<>>} \cup {<<l>> : l \in LineSet}

first_line_of(f) == IF f = <<>> THEN <<>> ELSE f[1] \o <<"\n">>

\* HeaderOk with the cursor set to the default three steps, whatever the header
HeaderOk_DefaultStart ==
    /\ pc = "header"
    /\ \E f \in FirstLines : \E h \in {scenario_header(first_line_of(f))} :
          /\ h.ok
          /\ file' = f
          /\ eof' = (f = <<>>)
          /\ header' = [step |-> h.step, width |-> h.width, height |-> h.height]
          /\ stdout' = Append(stdout, Header(h))
          /\ time' = 3 * default_step
    /\ pc' = "loop"
    /\ UNCHANGED <<earlier, scenario_exists, svg_requested, svg_file, index, preview_lines,
                   emitted, roles, cause>>

\* lines 263-293, the header parsed and printed, the cursor set
HeaderOk ==
    /\ pc = "header"
    /\ \E f \in FirstLines : \E h \in {scenario_header(first_line_of(f))} :
          /\ h.ok
          /\ file' = f
          /\ eof' = (f = <<>>)
          /\ header' = [step |-> h.step, width |-> h.width, height |-> h.height]
          /\ stdout' = Append(stdout, Header(h))
          /\ time' = 3 * h.step
    /\ pc' = "loop"
    /\ UNCHANGED <<earlier, scenario_exists, svg_requested, svg_file, index, preview_lines,
                   emitted, roles, cause>>

\* HeaderParseError with the recording header printed ahead of the parse
HeaderParseError_AfterPrint ==
    /\ pc = "header"
    /\ \E f \in FirstLines :
          /\ ~scenario_header(first_line_of(f)).ok
          /\ file' = f
          /\ eof' = (f = <<>>)
    /\ stdout' = Append(stdout, Header(header))
    /\ pc' = "error"
    /\ cause' = "header"
    /\ UNCHANGED <<earlier, scenario_exists, svg_requested, svg_file, header, time, index,
                   preview_lines, emitted, roles>>

\* line 271: from_str(stripped)? fails
HeaderParseError ==
    /\ pc = "header"
    /\ \E f \in FirstLines :
          /\ ~scenario_header(first_line_of(f)).ok
          /\ file' = f
          /\ eof' = (f = <<>>)
    /\ pc' = "error"
    /\ cause' = "header"
    /\ UNCHANGED <<earlier, scenario_exists, svg_requested, svg_file, header, time, index,
                   stdout, preview_lines, emitted, roles>>

\* lines 263 and 268: File::open or read_line fails
HeaderReadError ==
    /\ pc = "header"
    /\ pc' = "error"
    /\ cause' = "open"
    /\ UNCHANGED <<earlier, scenario_exists, svg_requested, svg_file, file, eof, header, time,
                   index, stdout, preview_lines, emitted, roles>>

\* the line reader.lines() gives next: the first line was read by the header
\* pass, the others are met here
NextLines ==
    IF index < Len(file) THEN {file[index + 1]}
    ELSE IF eof \/ Len(file) >= MaxLines THEN {}
    ELSE LineSet

Take(line, role) ==
    /\ file' = (IF index < Len(file) THEN file ELSE Append(file, line))
    /\ index' = index + 1
    /\ roles' = Append(roles, role)
    /\ UNCHANGED <<earlier, scenario_exists, svg_requested, svg_file, eof, header>>

\* the calls of print_entry an iteration makes, in order
Emit(out) ==
    /\ stdout' = stdout \o [i \in 1..Len(out) |-> print_entry(out[i])]
    /\ emitted' = emitted \o [i \in 1..Len(out) |->
                     [time |-> out[i].time, data |-> out[i].data, line |-> index]]

\* lines 297-298
SkipHeaderLine(line) ==
    /\ pc = "loop"
    /\ Branch(line, index) = "skip"
    /\ Take(line, "HeaderDirective")
    /\ UNCHANGED <<pc, time, stdout, preview_lines, emitted, cause>>

timeout_of(line) == parse_f64(trim(strip_prefix(line, TimeoutMark)))

\* lines 301-305
TimeoutLine(line) ==
    /\ pc = "loop"
    /\ Branch(line, index) = "timeout"
    /\ \E timeout \in {timeout_of(line)} :
          /\ timeout.ok
          /\ time' = time + timeout.val
    /\ Take(line, "TimeoutDirective")
    /\ UNCHANGED <<pc, stdout, preview_lines, emitted, cause>>

\* TimeoutParseError with the error dropped and the loop going on
TimeoutParseError_Skips(line) ==
    /\ pc = "loop"
    /\ Branch(line, index) = "timeout"
    /\ ~timeout_of(line).ok
    /\ Take(line, "TimeoutDirective")
    /\ UNCHANGED <<pc, cause, time, stdout, preview_lines, emitted>>

\* line 303: parse()? fails
TimeoutParseError(line) ==
    /\ pc = "loop"
    /\ Branch(line, index) = "timeout"
    /\ ~timeout_of(line).ok
    /\ Take(line, "TimeoutDirective")
    /\ pc' = "error"
    /\ cause' = "timeout"
    /\ UNCHANGED <<time, stdout, preview_lines, emitted>>

\* lines 308-309
CommentLine(line) ==
    /\ pc = "loop"
    /\ Branch(line, index) = "comment"
    /\ Take(line, "Comment")
    /\ UNCHANGED <<pc, time, stdout, preview_lines, emitted, cause>>

Console(line, prompt) ==
    \E r \in {echo_console_line(time, header.step, prompt,
                                strip_prefix(line, prompt \o DollarPrompt))} :
        /\ time' = r.time
        /\ Emit(r.out)
        /\ preview_lines' = Append(preview_lines, r.ret)
        /\ Take(line, "CommandLine")

\* lines 312-313
ConsoleLine(line) ==
    /\ pc = "loop"
    /\ Branch(line, index) = "console"
    /\ Console(line, <<>>)
    /\ UNCHANGED <<pc, cause>>

\* lines 316-322
NixConsoleLine(line) ==
    /\ pc = "loop"
    /\ Branch(line, index) = "nix"
    /\ Console(line, NixPrompt)
    /\ UNCHANGED <<pc, cause>>

\* lines 325-326
ClearLine(line) ==
    /\ pc = "loop"
    /\ Branch(line, index) = "clear"
    /\ \E r \in {clear_terminal(time, header.step)} :
          time' = r.time /\ Emit(r.out)
    /\ Take(line, "ClearDirective")
    /\ UNCHANGED <<pc, preview_lines, cause>>

\* BlankLine with a pause of one step
BlankLine_OneStep(line) ==
    /\ pc = "loop"
    /\ Branch(line, index) = "blank"
    /\ time' = time + header.step
    /\ Take(line, "Blank")
    /\ UNCHANGED <<pc, stdout, preview_lines, emitted, cause>>

\* lines 329-330
BlankLine(line) ==
    /\ pc = "loop"
    /\ Branch(line, index) = "blank"
    /\ time' = time + 3 * header.step
    /\ Take(line, "Blank")
    /\ UNCHANGED <<pc, stdout, preview_lines, emitted, cause>>

\* PlainLine printing at a time of its own choosing
PlainLine_AnyTime(line) ==
    /\ pc = "loop"
    /\ Branch(line, index) = "plain"
    /\ \E late \in {0, header.step} : Emit(<<Entry(time + late, line \o CRLF)>>)
    /\ preview_lines' = Append(preview_lines, <<line>>)
    /\ Take(line, "Plain")
    /\ UNCHANGED <<pc, time, cause>>

\* PlainLine without its preview line
PlainLine_NoPreview(line) ==
    /\ pc = "loop"
    /\ Branch(line, index) = "plain"
    /\ Emit(<<Entry(time, line \o CRLF)>>)
    /\ Take(line, "Plain")
    /\ UNCHANGED <<pc, time, cause, preview_lines>>

\* PlainLine printing the line trimmed
PlainLine_Trimmed(line) ==
    /\ pc = "loop"
    /\ Branch(line, index) = "plain"
    /\ Emit(<<Entry(time, trim(line) \o CRLF)>>)
    /\ preview_lines' = Append(preview_lines, <<line>>)
    /\ Take(line, "Plain")
    /\ UNCHANGED <<pc, time, cause>>

\* lines 333-340
PlainLine(line) ==
    /\ pc = "loop"
    /\ Branch(line, index) = "plain"
    /\ Emit(<<Entry(time, line \o CRLF)>>)
    /\ preview_lines' = Append(preview_lines, <<line>>)
    /\ Take(line, "Plain")
    /\ UNCHANGED <<pc, time, cause>>

\* LineReadError with the preview saved on the way out
LineReadError_SavesFirst ==
    /\ pc = "loop"
    /\ index = Len(file) /\ ~eof
    /\ pc' = "error"
    /\ cause' = "read"
    /\ svg_file' = (IF svg_requested
                    THEN [state |-> "written", rows |-> preview_rows(preview_lines)]
                    ELSE svg_file)
    /\ UNCHANGED <<earlier, scenario_exists, svg_requested, file, eof, header, time,
                   index, stdout, preview_lines, emitted, roles>>

\* lines 291 and 295: the second File::open fails, or maybe_line? is an Err
LineReadError ==
    /\ pc = "loop"
    /\ index = Len(file) /\ ~eof
    /\ pc' = "error"
    /\ cause' = "read"
    /\ UNCHANGED <<earlier, scenario_exists, svg_requested, svg_file, file, eof, header, time,
                   index, stdout, preview_lines, emitted, roles>>

\* the lines iterator is exhausted
EndOfFile ==
    /\ pc = "loop"
    /\ index = Len(file)
    /\ eof' = TRUE
    /\ pc' = "svg"
    /\ UNCHANGED <<earlier, scenario_exists, svg_requested, svg_file, file, header, time,
                   index, stdout, preview_lines, emitted, roles, cause>>

\* lines 344-407
WriteSvg ==
    /\ pc = "svg"
    /\ svg_requested
    /\ svg_file' = [state |-> "written", rows |-> preview_rows(preview_lines)]
    /\ pc' = "done"
    /\ UNCHANGED <<earlier, scenario_exists, svg_requested, file, eof, header, time,
                   index, stdout, preview_lines, emitted, roles, cause>>

\* line 406: svg::save(filename, &svg_preview)? fails, before or after the
\* file was created
SvgSaveError ==
    /\ pc = "svg"
    /\ svg_requested
    /\ svg_file' \in {svg_file, [state |-> "partial", rows |-> <<>>]}
    /\ pc' = "error"
    /\ cause' = "save"
    /\ UNCHANGED <<earlier, scenario_exists, svg_requested, file, eof, header, time,
                   index, stdout, preview_lines, emitted, roles>>

\* line 409
NoSvg ==
    /\ pc = "svg"
    /\ ~svg_requested
    /\ pc' = "done"
    /\ UNCHANGED <<earlier, scenario_exists, svg_requested, svg_file, file, eof, header, time,
                   index, stdout, preview_lines, emitted, roles, cause>>

Next ==
    \/ ScenarioMissing
    \/ SvgExists
    \/ PreflightOk
    \/ HeaderOk
    \/ HeaderParseError
    \/ HeaderReadError
    \/ \E line \in NextLines : SkipHeaderLine(line)
    \/ \E line \in NextLines : TimeoutLine(line)
    \/ \E line \in NextLines : TimeoutParseError(line)
    \/ \E line \in NextLines : CommentLine(line)
    \/ \E line \in NextLines : ConsoleLine(line)
    \/ \E line \in NextLines : NixConsoleLine(line)
    \/ \E line \in NextLines : ClearLine(line)
    \/ \E line \in NextLines : BlankLine(line)
    \/ \E line \in NextLines : PlainLine(line)
    \/ LineReadError
    \/ EndOfFile
    \/ WriteSvg
    \/ SvgSaveError
    \/ NoSvg

Spec == Init /\ [][Next]_vars

(***************************************************************************)
(* The program run a second time on the same scenario file, this time      *)
(* without a preview, after a first run has ended.                         *)
(***************************************************************************)
Ended == pc \in {"done", "error", "exit1"}

\* main is entered again
Rerun ==
    /\ Ended
    /\ earlier = NoRun
    /\ Len(file) <= MaxRerunLines
    /\ earlier' = [pc |-> pc, cause |-> cause, file |-> file, eof |-> eof,
                   header |-> header, time |-> time, index |-> index,
                   stdout |-> stdout, preview_lines |-> preview_lines,
                   emitted |-> emitted, roles |-> roles]
    /\ pc' = "start"
    /\ svg_requested' = FALSE
    /\ file' = <<>>
    /\ eof' = FALSE
    /\ header' = NoRun.header
    /\ time' = 0
    /\ index' = 0
    /\ stdout' = <<>>
    /\ preview_lines' = <<>>
    /\ emitted' = <<>>
    /\ roles' = <<>>
    /\ cause' = ""
    /\ UNCHANGED <<scenario_exists, svg_file>>

Agree(f, g) == \A i \in 1..Len(f) : i <= Len(g) => f[i] = g[i]

\* what this run has read of the file is what the earlier run read of it
SameInput ==
    earlier # NoRun =>
        /\ Agree(file, earlier.file)
        /\ earlier.eof => Len(file) <= Len(earlier.file)
        /\ eof => Len(file) >= Len(earlier.file)

NextTwice ==
    \/ Next /\ SameInput'
    \/ Rerun

SpecTwice == Init /\ [][NextTwice]_vars

(***************************************************************************)
(* The vocabulary of the properties.  The rules of the classifier are      *)
(* written here as the specification lists them, apart from Branch.        *)
(***************************************************************************)
HasPrefix(s, p) == \A i \in 1..Len(p) : i <= Len(s) /\ s[i] = p[i]

\* the prefixes of rules 1 to 6
RulePrefix ==
    <<Chars("#! "), Chars("#timeout:"), Chars("#"), Chars("$ "),
      Chars("(nix-shell) $ "), Chars("--")>>

Rule(k, line, pos) ==
    CASE k = 1 -> pos = 0 /\ HasPrefix(line, RulePrefix[1])
      [] k \in 2..6 -> HasPrefix(line, RulePrefix[k])
      [] k = 7 -> \A i \in 1..Len(line) : line[i] \in Whitespace
      [] k = 8 -> TRUE

FirstRule(line, pos) ==
    CHOOSE k \in 1..8 : Rule(k, line, pos) /\ \A j \in 1..(k - 1) : ~Rule(j, line, pos)

RoleNames ==
    <<"HeaderDirective", "TimeoutDirective", "Comment", "CommandLine", "CommandLine",
      "ClearDirective", "Blank", "Plain">>

RoleOf(line, pos) == RoleNames[FirstRule(line, pos)]

NixLabel == Chars("(nix-shell) ")

NixPromptData == <<ESC>> \o Chars("[32m(nix-shell) ") \o <<ESC>> \o Chars("[0m$ ")

PromptOf(line) == IF HasPrefix(line, RulePrefix[5]) THEN NixLabel ELSE <<>>

TypedText(line) == SubSeq(line, Len(PromptOf(line)) + 3, Len(line))

\* a step of the line loop that takes a line, the line it takes, its role
LineTaken == index' = index + 1

TheLine == file'[index']

Takes(role) == LineTaken /\ RoleOf(TheLine, index) = role

Grew(old, new) == Len(new) >= Len(old) /\ SubSeq(new, 1, Len(old)) = old

Added(old, new) == SubSeq(new, Len(old) + 1, Len(new))

CountData(seq, d) == Cardinality({i \in 1..Len(seq) : seq[i].data = d})

IsKey(e) == Len(e.data) = 1

\* the loop body on the line l, whatever its branch
LineStep(l) ==
    \/ SkipHeaderLine(l) \/ TimeoutLine(l) \/ TimeoutParseError(l) \/ CommentLine(l)
    \/ ConsoleLine(l) \/ NixConsoleLine(l) \/ ClearLine(l) \/ BlankLine(l) \/ PlainLine(l)

BranchesEnabled(l) ==
    (IF ENABLED SkipHeaderLine(l) THEN 1 ELSE 0)
    + (IF ENABLED (TimeoutLine(l) \/ TimeoutParseError(l)) THEN 1 ELSE 0)
    + (IF ENABLED CommentLine(l) THEN 1 ELSE 0)
    + (IF ENABLED ConsoleLine(l) THEN 1 ELSE 0)
    + (IF ENABLED NixConsoleLine(l) THEN 1 ELSE 0)
    + (IF ENABLED ClearLine(l) THEN 1 ELSE 0)
    + (IF ENABLED BlankLine(l) THEN 1 ELSE 0)
    + (IF ENABLED PlainLine(l) THEN 1 ELSE 0)

(***************************************************************************)
(* C1: the time cursor is never negative, and no step of the run makes it  *)
(* smaller.  The code adds whatever `#timeout:` gives, a negative number   *)
(* too.                                                                    *)
(***************************************************************************)
C1_CursorNonNegativeMonotone == [][time' >= 0 /\ time' >= time]_vars

(***************************************************************************)
(* C2: every line the loop is given goes to exactly one branch, the branch *)
(* of the first rule of the list that matches it; a CommandLine gets the   *)
(* prompt of its rule; the header line skipped at position 0 prints        *)
(* nothing, advances nothing and adds no preview line.                     *)
(***************************************************************************)
C2_FirstMatchWins ==
    /\ [](pc = "loop" => \A l \in NextLines : BranchesEnabled(l) = 1)
    /\ [][LineTaken =>
            /\ roles' = Append(roles, RoleOf(TheLine, index))
            /\ FirstRule(TheLine, index) \in {4, 5} =>
                  /\ Len(preview_lines') = Len(preview_lines) + 1
                  /\ preview_lines'[Len(preview_lines')][1] =
                        (IF FirstRule(TheLine, index) = 4 THEN <<>> ELSE NixLabel)
            /\ FirstRule(TheLine, index) = 1 =>
                  /\ time' = time /\ stdout' = stdout /\ emitted' = emitted
                  /\ preview_lines' = preview_lines]_vars

\* a `#! ` line after the header line was taken as a comment
C2_Witness ==
    /\ index >= 2
    /\ roles[1] = "HeaderDirective"
    /\ \E i \in 2..index : HasPrefix(file[i], RulePrefix[1]) /\ roles[i] = "Comment"

(***************************************************************************)
(* C3: a CommandLine of n typed characters taken at cursor t with step s   *)
(* prints its prompt at t + s, its k-th character at t + (4 + k) s and its *)
(* newline at t + (7 + n) s, where it leaves the cursor; the file `$ ls`   *)
(* under the default step prints at 0.4, 0.8, 0.9 and 1.2.                 *)
(***************************************************************************)
C3_CommandTiming ==
    /\ [](/\ file = <<Chars("$ ls")>> /\ index = 1
          => /\ Len(stdout) = 5
             /\ [i \in 1..4 |-> stdout[i + 1].time] = <<400, 800, 900, 1200>>)
    /\ [][Takes("CommandLine") =>
            LET n    == Len(TypedText(TheLine))
                s    == header.step
                new  == Added(emitted, emitted')
                keys == SelectSeq(new, IsKey)
            IN  /\ Grew(emitted, emitted')
                /\ Len(new) >= 2
                /\ new[1].time = time + s
                /\ Len(keys) = n
                /\ \A k \in 1..n : keys[k].time = time + (4 + k) * s
                /\ new[Len(new)].data = <<"\r", "\n">>
                /\ new[Len(new)].time = time + (7 + n) * s
                /\ time' = time + (7 + n) * s]_vars

C3_Witness == file = <<Chars("$ ls")>> /\ index = 1 /\ header.step = 100 /\ time = 1200

(***************************************************************************)
(* C4: between the prompt and the newline of a CommandLine there is one    *)
(* character event per typed character, in the order of the text, one      *)
(* bright-on event per `#` of the text and at most one bright-off event,   *)
(* and nothing else; over the run there are as many character events as    *)
(* the CommandLines taken have typed characters.                           *)
(***************************************************************************)
RECURSIVE TypedIn(_, _)
TypedIn(lines, n) ==
    IF n = 0 THEN 0
    ELSE TypedIn(lines, n - 1)
         + (IF RoleOf(lines[n], n - 1) = "CommandLine" THEN Len(TypedText(lines[n])) ELSE 0)

TypedSoFar == TypedIn(file, index)

C4_OneEventPerCharacter ==
    /\ [](Cardinality({i \in 1..Len(stdout) : stdout[i].kind = "o" /\ IsKey(stdout[i])})
            = TypedSoFar)
    /\ [][Takes("CommandLine") =>
            LET text == TypedText(TheLine)
                new  == Added(stdout, stdout')
                mid  == SubSeq(new, 2, Len(new) - 1)
                keys == SelectSeq(mid, IsKey)
                hashes == Cardinality({i \in 1..Len(text) : text[i] = "#"})
            IN  /\ Grew(stdout, stdout')
                /\ Len(new) >= 2
                /\ new[1].data = (IF PromptOf(TheLine) = <<>> THEN RulePrefix[4]
                                  ELSE NixPromptData)
                /\ new[Len(new)].data = <<"\r", "\n">>
                /\ [k \in 1..Len(keys) |-> keys[k].data[1]] = text
                /\ CountData(mid, <<ESC, "[", "1", "m">>) = hashes
                /\ CountData(mid, <<ESC, "[", "0", "m">>) <= 1
                /\ Len(mid) = Len(text) + hashes + CountData(mid, <<ESC, "[", "0", "m">>)]_vars

\* a command with two `#` was typed after another command
C4_Witness ==
    /\ index >= 2
    /\ file[index] = Chars("$ #a#")
    /\ RoleOf(file[1], 0) = "CommandLine"
    /\ Len(preview_lines) = 2

(***************************************************************************)
(* C5: a `#timeout:` line whose trimmed remainder is no number ends the    *)
(* run there: what was printed for the lines before it stays as it is,     *)
(* nothing is printed for it, and nothing is printed after the run has     *)
(* ended in an error.                                                      *)
(***************************************************************************)
FloatText(t) ==
    LET body == IF t # <<>> /\ t[1] \in {"+", "-"} THEN Tail(t) ELSE t
    IN  /\ \A i \in 1..Len(body) : IsDigit(body[i]) \/ body[i] = "."
        /\ Cardinality({i \in 1..Len(body) : body[i] = "."}) <= 1
        /\ \E i \in 1..Len(body) : IsDigit(body[i])

BadTimeout(line) == ~FloatText(trim(SubSeq(line, 10, Len(line))))

C5_BadTimeoutAborts ==
    [][/\ Takes("TimeoutDirective") /\ BadTimeout(TheLine) =>
            /\ pc' = "error"
            /\ stdout' = stdout
            /\ emitted' = emitted
            /\ \A i \in 1..Len(emitted') : emitted'[i].line < index
       /\ pc = "error" => pc' = "error" /\ stdout' = stdout]_vars

\* the run ended on a bad timeout after two lines that printed
C5_Witness ==
    /\ pc = "error" /\ cause = "timeout"
    /\ index = 3
    /\ \E i, j \in 1..Len(emitted) : emitted[i].line = 0 /\ emitted[j].line = 1

(***************************************************************************)
(* C6: the preview lines are, in order, one entry for each CommandLine     *)
(* (its prompt label and its typed text) and each Plain line (its text)    *)
(* taken so far, no entry for any other line and no entry without a        *)
(* segment; the document written has one row for each of them.             *)
(***************************************************************************)
PreviewOf(line) ==
    IF RoleOf(line, 1) = "CommandLine" THEN <<PromptOf(line), TypedText(line)>>
    ELSE <<line>>

Shown == {i \in 1..index : RoleOf(file[i], i - 1) \in {"CommandLine", "Plain"}}

C6_OnePreviewLinePerShownLine ==
    /\ \A shown \in {Shown} :
          /\ Len(preview_lines) = Cardinality(shown)
          /\ \A i \in shown :
                preview_lines[Cardinality({j \in shown : j <= i})] = PreviewOf(file[i])
    /\ \A k \in 1..Len(preview_lines) : Len(preview_lines[k]) >= 1
    /\ svg_file.state = "written" => Len(svg_file.rows) = Len(preview_lines)

\* a document of two rows was written for a file of three lines, one of them
\* not shown
C6_Witness ==
    /\ svg_file.state = "written"
    /\ index = 3
    /\ Len(svg_file.rows) = 2
    /\ Len(preview_lines[1]) # Len(preview_lines[2])

(***************************************************************************)
(* C7: a ClearDirective taken at cursor t with step s prints one event,    *)
(* the clear-and-home sequence, at t + 18 s, leaves the cursor at t + 21 s *)
(* and adds no preview line.                                               *)
(***************************************************************************)
C7_ClearAdvances21Steps ==
    [][Takes("ClearDirective") =>
          /\ Grew(stdout, stdout') /\ Len(stdout') = Len(stdout) + 1
          /\ stdout'[Len(stdout')].kind = "o"
          /\ stdout'[Len(stdout')].data = <<"\r", ESC, "[", "2", "J", "\r", ESC, "[", "H">>
          /\ Added(emitted, emitted') =
                <<[time |-> time + 18 * header.step,
                   data |-> <<"\r", ESC, "[", "2", "J", "\r", ESC, "[", "H">>,
                   line |-> index]>>
          /\ time' = time + 21 * header.step
          /\ preview_lines' = preview_lines]_vars

\* a screen clear after a line that printed
C7_Witness ==
    /\ index >= 2
    /\ roles[index] = "ClearDirective"
    /\ Len(emitted) >= 2
    /\ emitted[Len(emitted)].line = index - 1

(***************************************************************************)
(* C8: a Blank line prints nothing and changes the cursor alone, by three  *)
(* steps; a Comment line prints nothing and leaves the cursor, what was    *)
(* printed and the preview lines as they were.                             *)
(***************************************************************************)
C8_BlankAndCommentFrame ==
    [][/\ Takes("Blank") =>
            /\ time' = time + 3 * header.step
            /\ UNCHANGED <<stdout, emitted, preview_lines, pc, header, svg_file>>
       /\ Takes("Comment") =>
            /\ UNCHANGED <<time, stdout, emitted, preview_lines, pc, header, svg_file>>]_vars

\* a comment and a blank line were taken after a line that printed
C8_Witness ==
    /\ index = 3
    /\ roles[2] = "Comment" /\ roles[3] = "Blank"
    /\ Len(emitted) >= 1

(***************************************************************************)
(* C9: a Plain line prints one event, its text followed by a carriage      *)
(* return and a newline, at the cursor as it was before the line, adds one *)
(* preview line of one segment, the text, and leaves the cursor alone.     *)
(***************************************************************************)
C9_PlainPrintsAtCursor ==
    [][Takes("Plain") =>
          /\ Grew(stdout, stdout') /\ Len(stdout') = Len(stdout) + 1
          /\ stdout'[Len(stdout')].kind = "o"
          /\ stdout'[Len(stdout')].data = TheLine \o <<"\r", "\n">>
          /\ Added(emitted, emitted') =
                <<[time |-> time, data |-> TheLine \o <<"\r", "\n">>, line |-> index]>>
          /\ preview_lines' = Append(preview_lines, <<TheLine>>)
          /\ time' = time]_vars

\* a Plain line with a leading blank was printed after the cursor had moved
C9_Witness ==
    /\ index >= 2
    /\ roles[index] = "Plain"
    /\ file[index] = Chars(" --")
    /\ time > 3 * header.step

(***************************************************************************)
(* C10: the recording header is printed at most once and before every      *)
(* event, once in every run that reaches the line loop; the events are on  *)
(* stdout in the order print_entry was given them, which is the order of   *)
(* their lines; a first line `#! ` with malformed JSON ends the run with   *)
(* neither the header nor an event printed.                                *)
(***************************************************************************)
Headers == {i \in 1..Len(stdout) : stdout[i].kind = "header"}

Events == {i \in 1..Len(stdout) : stdout[i].kind = "o"}

C10_HeaderFirstEventsInOrder ==
    /\ Cardinality(Headers) <= 1
    /\ \A i \in Events : 1 \in Headers
    /\ Events = 2..(Len(emitted) + 1)
    /\ \A i \in 1..Len(emitted) :
          /\ stdout[i + 1].data = emitted[i].data
          /\ stdout[i + 1].time - emitted[i].time \in -5..5
    /\ \A i, j \in 1..Len(emitted) : i <= j => emitted[i].line <= emitted[j].line
    /\ (pc \in {"loop", "svg", "done"} \/ cause \in {"timeout", "read", "save"})
          => Headers = {1}
    /\ cause = "header" => Headers = {} /\ Events = {}
    /\ pc = "header" => stdout = <<>>

\* malformed header JSON ended the run with nothing printed
C10_WitnessMalformed ==
    /\ pc = "error" /\ cause = "header"
    /\ file = <<Chars("#! {")>>
    /\ stdout = <<>>

(***************************************************************************)
(* C11: with the scenario file missing, or a preview file asked for where  *)
(* a file already is, the run ends in exit(1) from the start, with no      *)
(* recording header, no event and no preview line, and with the file at    *)
(* the preview path as it was; nothing follows exit(1); the preview path   *)
(* changes only in the save, which is reached only when a preview was      *)
(* asked for and its path was free at the start.                           *)
(***************************************************************************)
PreflightFails == ~scenario_exists \/ (svg_requested /\ svg_file.state # "absent")

C11_PreflightFailsCleanly ==
    /\ [][(pc = "start" /\ PreflightFails)
             => /\ pc' = "exit1"
                /\ svg_file' = svg_file
                /\ Headers' = {} /\ Events' = {}
                /\ emitted' = <<>> /\ preview_lines' = <<>>]_vars
    /\ [][pc = "exit1" => UNCHANGED vars]_vars
    /\ [][svg_file' # svg_file
             => pc = "svg" /\ svg_requested /\ svg_file = Absent]_vars
    /\ [](svg_file.state = "old" => pc \in {"start", "exit1"})
    /\ [](svg_file.state = "written" => svg_requested /\ pc = "done")

\* the run stopped at the start on a preview file that was there, and left it
C11_Witness ==
    /\ pc = "exit1"
    /\ scenario_exists /\ svg_requested
    /\ svg_file = [state |-> "old", rows |-> <<>>]
    /\ Len(stdout) = 1 /\ stdout[1].kind = "error"

(***************************************************************************)
(* C12: in the saved preview, the row of a preview line holds, for each    *)
(* segment in turn, the unstyled text `$ ` when the segment is empty, the  *)
(* escaped segment as one unstyled text when it has no `#`, and otherwise  *)
(* the escaped part before the first `#` unstyled and then the escaped     *)
(* part after it in the emphasis style, and nothing more.  The code adds   *)
(* to every non-empty segment a further fg-2 span of the whole segment.    *)
(***************************************************************************)
SegmentOnce(seg) ==
    IF seg = <<>> THEN <<Node("", Chars("$ "))>>
    ELSE IF \A i \in 1..Len(seg) : seg[i] # "#"
         THEN <<Node("", encode_safe(seg))>>
         ELSE LET i == CHOOSE k \in 1..Len(seg) :
                          seg[k] = "#" /\ \A j \in 1..(k - 1) : seg[j] # "#"
              IN  <<Node("", encode_safe(SubSeq(seg, 1, i - 1))),
                    Node("fg-15", encode_safe(SubSeq(seg, i + 1, Len(seg))))>>

RowOnce(preview_line) ==
    Concat([i \in 1..Len(preview_line) |-> SegmentOnce(preview_line[i])])

C12_SegmentRenderedOnce ==
    svg_file.state = "written"
        => svg_file.rows = [i \in 1..Len(preview_lines) |-> RowOnce(preview_lines[i])]

(***************************************************************************)
(* C13: a second run on the same file gives what the first gave.  With     *)
(* both runs past the header: the headers are the same; of the lines both  *)
(* runs took, the entries given to print_entry and what is on stdout are   *)
(* the same, in the same order; and when both have taken the same number   *)
(* of lines, the cursor, the preview lines, the branches taken and the     *)
(* bad-timeout error are the same.  A malformed header ends both runs.     *)
(* The first run may have written a preview, the second asks for none.     *)
(***************************************************************************)
PastHeader(p, c) == p \in {"loop", "svg", "done"} \/ (p = "error" /\ c \in {"timeout", "read", "save"})

Upto(es, n) == SelectSeq(es, LAMBDA e : e.line < n)

Both == IF index <= earlier.index THEN index ELSE earlier.index

Advance(line, pos) ==
    LET role == RoleOf(line, pos)
    IN  CASE role = "TimeoutDirective" -> timeout_of(line).val
          [] role = "CommandLine"      -> (7 + Len(TypedText(line))) * header.step
          [] role = "ClearDirective"   -> 21 * header.step
          [] role = "Blank"            -> 3 * header.step
          [] OTHER                     -> 0

RECURSIVE SumAdvance(_)
SumAdvance(n) == IF n = 0 THEN 0 ELSE SumAdvance(n - 1) + Advance(file[n], n - 1)

ExactCursor(n) == 3 * header.step + SumAdvance(n)

\* the run is in or past the line loop and no line has failed
NoLineFailed == pc \in {"loop", "svg", "done"} \/ (pc = "error" /\ cause \in {"read", "save"})

(***************************************************************************)
(* C14: the time of every entry given to print_entry is the exact cursor   *)
(* at that point, the exact cursor at the start of its line and the exact  *)
(* offset within the line; the printed time is that time at two decimals,  *)
(* within 0.005 of it however many events came before; and the cursor      *)
(* before and after every line is the exact sum of the advances.           *)
(***************************************************************************)
\* the exact offset of the i-th entry of a line from the start of the line
OffsetIn(new, i, line, pos) ==
    LET e == new[i]
        s == header.step
        n == Len(TypedText(line))
        k == Cardinality({j \in 1..i : IsKey(new[j])})
    IN  CASE RoleOf(line, pos) = "ClearDirective" -> 18 * s
          [] RoleOf(line, pos) = "CommandLine" ->
                IF IsKey(e) THEN (4 + k) * s
                ELSE IF e.data = <<ESC, "[", "1", "m">> THEN (4 + k + 1) * s
                ELSE IF e.data = <<ESC, "[", "0", "m">> THEN (4 + n) * s
                ELSE IF e.data = <<"\r", "\n">> THEN (7 + n) * s
                ELSE s
          [] OTHER -> 0

C14_RoundingOnlyOnPrint ==
    [][LineTaken =>
          \A start \in {ExactCursor(index)} :
             LET new == Added(emitted, emitted')
                 out == Added(stdout, stdout')
             IN  /\ time = start
                 /\ Grew(emitted, emitted') /\ Grew(stdout, stdout')
                 /\ Len(out) = Len(new)
                 /\ \A i \in 1..Len(new) :
                       /\ new[i].time = start + OffsetIn(new, i, TheLine, index)
                       /\ out[i].time % 10 = 0
                       /\ out[i].time - new[i].time \in -5..5
                 /\ pc' # "error" => time' = start + Advance(TheLine, index)]_vars

\* with step 0.125, an event was printed 0.005 off and a later one exactly
C14_Witness ==
    /\ header.step = 125
    /\ \E i, j \in 1..Len(emitted) :
          /\ i < j
          /\ stdout[i + 1].time - emitted[i].time \in {-5, 5}
          /\ stdout[j + 1].time = emitted[j].time
    /\ time % 10 = 5

(***************************************************************************)
(* C15: in the entries of a CommandLine between its prompt and its         *)
(* newline, every `#` comes right after a bright-on entry of the same      *)
(* time, every bright-on entry is followed at once by a `#`, and a         *)
(* bright-off entry is there, once, exactly when the text has a `#`: it is *)
(* the last entry before the newline and has the time of the last          *)
(* character.  The printed times agree in the same way.                    *)
(***************************************************************************)
C15_BrightAroundHash ==
    [][Takes("CommandLine") =>
          LET text == TypedText(TheLine)
              new  == Added(emitted, emitted')
              mid  == SubSeq(new, 2, Len(new) - 1)
              out  == SubSeq(Added(stdout, stdout'), 2, Len(new) - 1)
              on   == <<ESC, "[", "1", "m">>
              off  == <<ESC, "[", "0", "m">>
              hash == \E i \in 1..Len(text) : text[i] = "#"
              m    == Len(mid)
          IN  /\ Len(out) = m
              /\ \A i \in 1..m :
                    /\ mid[i].data = <<"#">> =>
                          /\ i > 1
                          /\ mid[i - 1].data = on
                          /\ mid[i - 1].time = mid[i].time
                          /\ out[i - 1].time = out[i].time
                    /\ mid[i].data = on => i < m /\ mid[i + 1].data = <<"#">>
                    /\ mid[i].data = off => i = m
              /\ CountData(mid, off) = (IF hash THEN 1 ELSE 0)
              /\ hash => /\ m >= 3
                         /\ mid[m].data = off
                         /\ IsKey(mid[m - 1])
                         /\ mid[m].time = mid[m - 1].time
                         /\ out[m].time = out[m - 1].time
                         /\ mid[m].time < new[Len(new)].time]_vars

\* a command whose text has a `#` in the middle and at the end was typed
C15_Witness ==
    /\ index >= 1
    /\ roles[index] = "CommandLine"
    /\ file[index] = Chars("$ #a#")
    /\ CountData(emitted, <<ESC, "[", "1", "m">>) = 2
    /\ CountData(emitted, <<ESC, "[", "0", "m">>) = 1

(***************************************************************************)
(* C16: with the lines taken so far all processed without error, the       *)
(* cursor is 3 steps of the header plus, for each of those lines, the      *)
(* timeout of a TimeoutDirective, 7 + n steps for a CommandLine of n typed *)
(* characters, 21 steps for a ClearDirective, 3 steps for a Blank and      *)
(* nothing for a HeaderDirective, a Comment or a Plain line; a line that   *)
(* fails leaves the cursor where the lines before it put it.               *)
(***************************************************************************)
C16_CursorIsSumOfAdvances ==
    /\ NoLineFailed => time = ExactCursor(index)
    /\ (pc = "error" /\ cause = "timeout") => time = ExactCursor(index - 1)
    /\ pc = "loop" /\ index = 0 => time = 3 * header.step

\* a timeout, a command and a clear were taken after a header with its own step
C16_Witness ==
    /\ pc = "done"
    /\ header.step = 125
    /\ index = 3
    /\ roles[1] = "HeaderDirective"
    /\ {roles[2], roles[3]} \in {{"TimeoutDirective", "CommandLine"},
                                 {"ClearDirective", "CommandLine"}}
    /\ time > 3 * header.step

(***************************************************************************)
(* C17: while lines are being processed, and in a run that a bad header,   *)
(* a bad timeout or a read error ended, nothing is at the preview path     *)
(* that was asked for; a file is there only once every line of the file    *)
(* has been taken without error.  The run that a bad timeout or a read     *)
(* error ended in the line loop has its header and the events of the       *)
(* earlier lines on stdout.                                                *)
(***************************************************************************)
AbortedInLoop == pc = "error" /\ cause \in {"timeout", "read"}

C17_PreviewOnlyAfterAllLines ==
    /\ (pc \in {"header", "loop"} \/ (pc = "error" /\ cause # "save")) => svg_file = Absent
    /\ (svg_requested /\ svg_file # Absent /\ pc \notin {"start", "exit1"}) =>
          /\ pc \in {"done", "error"}
          /\ cause \in {"", "save"}
          /\ eof /\ index = Len(file)
          /\ \A i \in 1..index : roles[i] = "TimeoutDirective" => ~BadTimeout(file[i])
    /\ AbortedInLoop =>
          /\ Len(stdout) = Len(emitted) + 1
          /\ stdout[1].kind = "header"
          /\ \A i \in 1..Len(emitted) :
                stdout[i + 1].data = emitted[i].data /\ emitted[i].line < index

\* a preview was asked for, and a bad timeout ended the run after events
C17_Witness ==
    /\ pc = "error" /\ cause = "timeout"
    /\ svg_requested
    /\ svg_file = Absent
    /\ index >= 2
    /\ Len(stdout) >= 3

=============================================================================
